---- MODULE Spec2Model ----
(***************************************************************************)
(* The "recent blog posts" pipeline of the site.                           *)
(*                                                                         *)
(*   build stage   : recentBlogPostsPlugin.allContentLoaded reads the blog *)
(*                   plugin's content, keeps the first five posts and      *)
(*                   publishes them with setGlobalData;                    *)
(*   render stage  : the useRecentBlogPosts hooks read the published data  *)
(*                   and turn it into cards; BlogPostsSection renders the  *)
(*                   cards of useRecentBlogPosts(3) or nothing.            *)
(*                                                                         *)
(* Encoding of JavaScript values                                           *)
(*   opaque strings and numbers (title, description, date, tag labels,     *)
(*   formatted dates, reading time) are integers: Undef is undefined,      *)
(*   Empty is "" (and the number 0), every integer > 0 is a distinct       *)
(*   non-empty string (truthy).  A date d > 0 is the day number of a valid *)
(*   date string (UTC midnight of day d).                                  *)
(*   path-like strings (permalink, image, source, id) are sequences of     *)
(*   tokens, <<>> is "", UndefStr is undefined.                            *)
(***************************************************************************)
EXTENDS Integers, Sequences, FiniteSets, TLC

\* ------------------------------------------------------------------ bounds
MaxPosts == 6         \* longest blogPosts array handed to the plugin
MaxGlobalPosts == 3   \* longest blogPosts list in the blog plugin's global data
MaxCount == 3
MaxProjects == 3         \* largest count passed to a useRecentBlogPosts hook

\* ------------------------------------------------------- program constants
RecentLimit == 5      \* .slice(0, 5)
DefaultCount == 3     \* useRecentBlogPosts(3) in BlogPostsSection
DefaultReadingTime == 5   \* post.readingTime || 5
CardTagLimit == 3     \* post.tags.slice(0, 3) in BlogPostCard

\* ------------------------------------------------------- value encodings
Undef == 0 - 1
Empty == 0
UndefStr == <<"undefined">>
EmptyStr == <<>>

Truthy(x) == x > 0
TruthyStr(s) == s # UndefStr /\ s # EmptyStr

\* x || ""   and   x || 0
OrEmpty(x) == IF Truthy(x) THEN x ELSE Empty
OrEmptyStr(s) == IF TruthyStr(s) THEN s ELSE EmptyStr
\* mutant: a stock banner stands in for a missing image
OrUndefStrBanner(s) ==
  IF s # <<"undefined">> /\ s # <<>> THEN s ELSE <<"/", "img", "/", "hero-banner.png">>

\* x || undefined
OrUndefStr(s) == IF TruthyStr(s) THEN s ELSE UndefStr

Min(a, b) == IF a < b THEN a ELSE b

\* Array.prototype.slice(0, k) for k >= 0
Slice(s, k) == SubSeq(s, 1, Min(k, Len(s)))

\* ------------------------------------------------------------- blog posts
\* A blog post as the blog plugin hands it over.  isNull is a null / undefined
\* array entry; hasMetadata = FALSE is an object without a metadata field.
NullPost ==
  [isNull |-> TRUE, hasMetadata |-> FALSE, id |-> UndefStr,
   title |-> Undef, description |-> Undef, permalink |-> UndefStr,
   date |-> Undef, formattedDate |-> Undef, image |-> UndefStr,
   metaImage |-> UndefStr, source |-> UndefStr, hasTags |-> FALSE,
   tags |-> <<>>, readingTime |-> Undef, unlisted |-> FALSE]

NoMetaPost == [NullPost EXCEPT !.isNull = FALSE]

\* tags of a post: label objects and plain strings
TagObject(l) == [isString |-> FALSE, label |-> l]
TagString(l) == [isString |-> TRUE, label |-> l]

\* The post published on day d.  Odd days: a bare post (no image, no tags, no
\* description, source inside a blog folder); even days: a post with a relative
\* image, a pre-formatted date, tags and a permalink with a trailing slash.
Post(d) ==
  [isNull |-> FALSE, hasMetadata |-> TRUE,
   id |-> IF d % 2 = 1 THEN <<"post", ToString(d)>> ELSE UndefStr,
   title |-> 10 + d,
   description |-> IF d % 2 = 1 THEN Undef ELSE 60 + d,
   permalink |-> IF d % 2 = 1 THEN <<"/", "blog", "/", ToString(d)>>
                 ELSE <<"/", "blog", "/", ToString(d), "/">>,
   date |-> d,
   formattedDate |-> IF d % 2 = 1 THEN Undef ELSE 40 + d,
   image |-> IF d % 2 = 1 THEN UndefStr ELSE <<".", "/", "img", "/", "hero.png">>,
   metaImage |-> UndefStr,
   source |-> IF d % 2 = 1
              THEN <<"@site", "/", "blog", "/", ToString(d), "/", "index.md">>
              ELSE <<"@site", "/", "posts", "/", "index.md">>,
   hasTags |-> d % 2 = 0,
   tags |-> IF d % 2 = 1 THEN <<>>
            ELSE <<TagObject(70 + d), TagString(80 + d), TagObject(Undef)>>,
   readingTime |-> IF d % 2 = 1 THEN Undef ELSE 34,   \* tenths of a minute
   unlisted |-> FALSE]

Dates == {1, 2}

\* what allContent["docusaurus-plugin-content-blog"].default.blogPosts may hold
PostPool == {NullPost, NoMetaPost} \cup {Post(d) : d \in Dates}

\* front matter images: relative to the post's folder, absolute, and relative
\* without the leading "./"
RelativeImage == <<".", "/", "img", "/", "hero.png">>
AbsoluteImage == <<"/", "img", "/", "blog", "/", "cover.png">>
BareImage == <<"img", "/", "cover.png">>

\* metadata.source of a post kept in a dated folder, and of a single-file post
FolderSource == <<"@site", "/", "blog", "/", "2025-04-05-post", "/", "index.md">>
FlatSource == <<"@site", "/", "blog", "/", "post.md">>

\* the post of day d with another image and source
ImagePost(d, image, source) == [Post(d) EXCEPT !.image = image, !.source = source]

ImagePosts ==
  {ImagePost(1, RelativeImage, FolderSource), ImagePost(2, UndefStr, FlatSource),
   ImagePost(1, AbsoluteImage, FolderSource), ImagePost(2, BareImage, FolderSource)}

\* blogPosts?: BlogPost[] of the blog plugin's global data: objects with an
\* optional metadata
TypedPostPool == {NoMetaPost} \cup {Post(d) : d \in Dates} \cup ImagePosts

SeqsUpTo(S, n) == UNION {[1..k -> S] : k \in 0..n}


\* ---------------------------------------------------------------- state
VARIABLES
  phase,        \* "build" | "built" | "failed" | "client"
  allContent,   \* build-time content handed to allContentLoaded
  blogGlobal,   \* global data of docusaurus-plugin-content-blog / default
  globalData,   \* global data of recent-blog-posts-plugin
  setCalls,     \* number of setGlobalData calls made so far
  rendered,     \* what the last hook call / component render returned
  timeZone,     \* time zone of the environment the code currently runs in
  serverRender, \* what the build rendered on the server, as the browser got it
  Projects,     \* the showcase data of unnamed/part_006
  sortedProjects \* the exported constant, once the showcase module is evaluated

vars == <<phase, allContent, blogGlobal, globalData, setCalls, rendered,
          timeZone, serverRender, Projects, sortedProjects>>

\* ----------------------------------------- recent-blog-posts-plugin.ts
\* formatDate: month, day and year from the UTC getters; new Date("") is an
\* invalid date and formats as "undefined NaN, NaN" (98).
formatDate(dateString) == IF dateString > 0 THEN 100 + dateString ELSE 98

\* post.metadata?.f : undefined when the post has no metadata
Meta(post, f) == IF post.hasMetadata THEN post[f] ELSE Undef
MetaStr(post, f) == IF post.hasMetadata THEN post[f] ELSE UndefStr

\* post.metadata of a null / undefined entry throws a TypeError
MapThrows(post) == post.isNull

\* Math.round of a reading time given in tenths of a minute
Round(tenths) == (tenths + 5) \div 10

\* tags?.map(t => typeof t === "string" ? t : t?.label || "").filter(Boolean) || []
TagLabels(post) ==
  IF post.hasMetadata /\ post.hasTags
  THEN SelectSeq([i \in 1..Len(post.tags) |->
                    IF post.tags[i].isString THEN post.tags[i].label
                    ELSE OrEmpty(post.tags[i].label)],
                 Truthy)
  ELSE <<>>

\* the object literal of the .map callback
ToBlogListItem(post) ==
  [title |-> OrEmpty(Meta(post, "title")),
   permalink |-> OrEmptyStr(MetaStr(post, "permalink")),
   date |-> OrEmpty(Meta(post, "date")),
   formattedDate |-> IF Truthy(Meta(post, "formattedDate"))
                     THEN Meta(post, "formattedDate")
                     ELSE formatDate(OrEmpty(Meta(post, "date"))),
   image |-> OrEmptyStr(MetaStr(post, "image")),
   description |-> OrEmpty(Meta(post, "description")),
   tags |-> TagLabels(post),
   readingTime |-> Round(OrEmpty(Meta(post, "readingTime"))),
   unlisted |-> post.hasMetadata /\ post.unlisted]

\* mutant: an off-by-one slice, .slice(0, 4)
FirstPostsFour(blogPosts) == Slice(blogPosts, RecentLimit - 1)

\* mutant: the last five entries, .slice(-5)
FirstPostsLastFive(blogPosts) ==
  SubSeq(blogPosts, Len(blogPosts) - Min(RecentLimit, Len(blogPosts)) + 1, Len(blogPosts))

\* blogContent.blogPosts.slice(0, 5)
FirstPosts(blogPosts) == Slice(blogPosts, RecentLimit)

\* mutant: the sliced posts come out in reverse order
RecentPostsReversed(blogPosts) ==
  [i \in 1..Len(FirstPosts(blogPosts)) |->
     ToBlogListItem(FirstPosts(blogPosts)[Len(FirstPosts(blogPosts)) + 1 - i])]

\* .slice(0, 5).map(...)
RecentPosts(blogPosts) ==
  [i \in 1..Len(FirstPosts(blogPosts)) |-> ToBlogListItem(FirstPosts(blogPosts)[i])]

\* mutant: the whole array is mapped before it is sliced
TryThrowsAnywhere(content) ==
  \/ content.kind = "unreadable"
  \/ /\ content.kind = "array"
     /\ \E i \in 1..Len(content.blogPosts) : MapThrows(content.blogPosts[i])

\* does the try block raise?  Reading a field of an undefined allContent, or
\* mapping a null entry among the sliced posts.
TryThrows(content) ==
  \/ content.kind = "unreadable"
  \/ /\ content.kind = "array"
     /\ \E i \in 1..Len(FirstPosts(content.blogPosts)) :
          MapThrows(FirstPosts(content.blogPosts)[i])

\* blogContent?.blogPosts && Array.isArray(blogContent.blogPosts)
HasPostArray(content) == content.kind = "array"

\* mutant: the catch block logs and rethrows
CatchBlockRethrows == [published |-> FALSE, recentPosts |-> <<>>, propagates |-> TRUE]

\* mutant: the catch block only logs
CatchBlockSilent == [published |-> FALSE, recentPosts |-> <<>>, propagates |-> FALSE]

\* mutant: the else branch publishes nothing
ElseBranchSilent == [published |-> FALSE, recentPosts |-> <<>>, propagates |-> FALSE]

\* the catch block: log, publish the empty list, swallow the exception
CatchBlock == [published |-> TRUE, recentPosts |-> <<>>, propagates |-> FALSE]

\* the else branch: no usable blogPosts
ElseBranch == [published |-> TRUE, recentPosts |-> <<>>, propagates |-> FALSE]

\* the body of allContentLoaded
Outcome(content) ==
  IF TryThrows(content) THEN CatchBlock
  ELSE IF HasPostArray(content)
       THEN [published |-> TRUE, recentPosts |-> RecentPosts(content.blogPosts),
             propagates |-> FALSE]
       ELSE ElseBranch

PluginData(posts) == [present |-> TRUE, hasRecentPosts |-> TRUE, recentPosts |-> posts]
NoPluginData == [present |-> FALSE, hasRecentPosts |-> FALSE, recentPosts |-> <<>>]

NotRendered ==
  [by |-> "none", count |-> 0, threw |-> FALSE, tz |-> 0, posts |-> <<>>,
   section |-> "none", cards |-> <<>>]

\* actions.setGlobalData(data) with the outcome o of the handler's body
SetGlobalData(o) ==
  /\ globalData' = IF o.published THEN PluginData(o.recentPosts) ELSE globalData
  /\ setCalls' = IF o.published THEN setCalls + 1 ELSE setCalls

AllContentLoaded ==
  /\ phase = "build"
  /\ SetGlobalData(Outcome(allContent))
  /\ phase' = IF Outcome(allContent).propagates THEN "failed" ELSE "built"
  /\ UNCHANGED <<allContent, blogGlobal, rendered, timeZone, serverRender,
                 Projects, sortedProjects>>

\* ------------------------------------- the plugin as of unnamed/part_003
\* tags?.map(t => t.label || t) || []
TagLabels003(post) ==
  IF post.hasMetadata /\ post.hasTags
  THEN [i \in 1..Len(post.tags) |-> post.tags[i].label]
  ELSE <<>>

\* t.label of a tag that is a label object without a label yields the object
\* itself; the posts of the pool that the old plugin maps carry labelled tags
ToBlogListItem003(post) ==
  [title |-> OrEmpty(Meta(post, "title")),
   permalink |-> OrEmptyStr(MetaStr(post, "permalink")),
   date |-> OrEmpty(Meta(post, "date")),
   formattedDate |-> Undef,
   image |-> OrEmptyStr(MetaStr(post, "image")),
   description |-> OrEmpty(Meta(post, "description")),
   tags |-> TagLabels003(post),
   readingTime |-> Round(OrEmpty(Meta(post, "readingTime"))),
   unlisted |-> post.hasMetadata /\ post.unlisted]

RecentPosts003(blogPosts) ==
  [i \in 1..Len(FirstPosts(blogPosts)) |-> ToBlogListItem003(FirstPosts(blogPosts)[i])]

Outcome003(content) ==
  IF TryThrows(content) THEN CatchBlock
  ELSE IF HasPostArray(content)
       THEN [published |-> TRUE, recentPosts |-> RecentPosts003(content.blogPosts),
             propagates |-> FALSE]
       ELSE ElseBranch

AllContentLoaded003 ==
  /\ phase = "build"
  /\ SetGlobalData(Outcome003(allContent))
  /\ phase' = IF Outcome003(allContent).propagates THEN "failed" ELSE "built"
  /\ UNCHANGED <<allContent, blogGlobal, rendered, timeZone, serverRender,
                 Projects, sortedProjects>>

\* The build is over: the page is loaded in a browser, which sees the published
\* global data and the server-rendered markup only; the build-time content is
\* gone, nothing is rendered yet, and the browser has a time zone of its own.
TimeZones == {0 - 1, 0, 1}

Released == [kind |-> "released", blogPosts |-> <<>>]

StartClient ==
  /\ phase = "built"
  /\ phase' = "client"
  /\ allContent' = Released
  /\ rendered' = NotRendered
  /\ serverRender' = rendered
  /\ timeZone' \in TimeZones
  /\ UNCHANGED <<blogGlobal, globalData, setCalls, Projects, sortedProjects>>

\* ----------------------------------- useRecentBlogPosts, unnamed/part_007
Last(s) == s[Len(s)]
IsSegment(t) == t # "/"

\* permalink.split("/").filter(Boolean).pop() || ""
Slug(permalink) ==
  IF SelectSeq(permalink, IsSegment) = <<>> THEN EmptyStr
  ELSE <<Last(SelectSeq(permalink, IsSegment))>>

\* !pluginData?.recentPosts || pluginData.recentPosts.length === 0
NoRecentPosts(pluginData) ==
  \/ ~pluginData.present
  \/ ~pluginData.hasRecentPosts
  \/ Len(pluginData.recentPosts) = 0

\* mutant: the date is formatted at render time in the local time zone
ToFeatured007Local(post) ==
  [id |-> Slug(post.permalink), title |-> post.title,
   description |-> OrEmpty(post.description), date |-> post.date,
   formattedDate |-> IF post.date > 0
                     THEN 100 + (IF timeZone < 0 THEN post.date - 1 ELSE post.date)
                     ELSE 97,
   permalink |-> post.permalink, imageUrl |-> OrUndefStr(post.image),
   tags |-> post.tags,
   readingTime |-> IF post.readingTime # 0 - 1 /\ post.readingTime # 0
                   THEN post.readingTime ELSE DefaultReadingTime]

\* mutant: the description is copied into the title
ToFeatured007Mixed(post) ==
  [id |-> Slug(post.permalink), title |-> OrEmpty(post.description),
   description |-> OrEmpty(post.description), date |-> post.date,
   formattedDate |-> post.date, permalink |-> post.permalink,
   imageUrl |-> OrUndefStr(post.image), tags |-> post.tags,
   readingTime |-> DefaultReadingTime]

ToFeatured007(post) ==
  [id |-> Slug(post.permalink),
   title |-> post.title,
   description |-> OrEmpty(post.description),
   date |-> post.date,
   formattedDate |-> IF Truthy(post.formattedDate) THEN post.formattedDate
                     ELSE post.date,
   permalink |-> post.permalink,
   imageUrl |-> OrUndefStr(post.image),
   tags |-> post.tags,
   readingTime |-> IF Truthy(post.readingTime) THEN post.readingTime
                   ELSE DefaultReadingTime]

\* mutant: the count is ignored
TakeRecentAll(recentPosts, count) == recentPosts

\* pluginData.recentPosts.slice(0, count)
TakeRecent(recentPosts, count) == Slice(recentPosts, count)

\* post.permalink.split of an undefined permalink throws
HookMapThrows(recentPosts, count) ==
  \E i \in 1..Len(TakeRecent(recentPosts, count)) :
     TakeRecent(recentPosts, count)[i].permalink = UndefStr

\* the hook's result; readThrows: usePluginData raised
useRecentBlogPosts007(pluginData, count, readThrows) ==
  IF readThrows THEN <<>>
  ELSE IF NoRecentPosts(pluginData) THEN <<>>
  ELSE IF HookMapThrows(pluginData.recentPosts, count) THEN <<>>
  ELSE [i \in 1..Len(TakeRecent(pluginData.recentPosts, count)) |->
          ToFeatured007(TakeRecent(pluginData.recentPosts, count)[i])]

\* ----------------------------------- useRecentBlogPosts, unnamed/part_008
\* calendar day of the instant "UTC midnight of day d" in the rendering
\* environment's time zone: west of Greenwich it is still the day before
LocalDay(d, tz) == IF tz < 0 THEN d - 1 ELSE d

\* toLocaleDateString("en-US", long); an invalid date gives "Invalid Date" (97)
formatDate008(dateString, tz) ==
  IF dateString > 0 THEN 100 + LocalDay(dateString, tz) ELSE 97

ToFeatured008(post, tz) ==
  [id |-> Slug(post.permalink),
   title |-> post.title,
   description |-> OrEmpty(post.description),
   date |-> post.date,
   formattedDate |-> formatDate008(post.date, tz),
   permalink |-> post.permalink,
   imageUrl |-> OrUndefStr(post.image),
   tags |-> post.tags,
   readingTime |-> IF Truthy(post.readingTime) THEN post.readingTime
                   ELSE DefaultReadingTime]

useRecentBlogPosts008(pluginData, count, tz, readThrows) ==
  IF readThrows THEN <<>>
  ELSE IF NoRecentPosts(pluginData) THEN <<>>
  ELSE IF HookMapThrows(pluginData.recentPosts, count) THEN <<>>
  ELSE [i \in 1..Len(TakeRecent(pluginData.recentPosts, count)) |->
          ToFeatured008(TakeRecent(pluginData.recentPosts, count)[i], tz)]

Render007 ==
  /\ phase = "client"
  /\ rendered.by = "none"
  /\ \E count \in 0..MaxCount, readThrows \in BOOLEAN :
       rendered' = [by |-> "part_007", count |-> count, threw |-> readThrows,
                    tz |-> timeZone, section |-> "none", cards |-> <<>>,
                    posts |-> useRecentBlogPosts007(globalData, count, readThrows)]
  /\ UNCHANGED <<phase, allContent, blogGlobal, globalData, setCalls,
                 timeZone, serverRender, Projects, sortedProjects>>

Render008 ==
  /\ phase = "client"
  /\ rendered.by = "none"
  /\ \E count \in 0..MaxCount, readThrows \in BOOLEAN :
       rendered' = [by |-> "part_008", count |-> count, threw |-> readThrows,
                    tz |-> timeZone, section |-> "none", cards |-> <<>>,
                    posts |-> useRecentBlogPosts008(globalData, count, timeZone,
                                                    readThrows)]
  /\ UNCHANGED <<phase, allContent, blogGlobal, globalData, setCalls,
                 timeZone, serverRender, Projects, sortedProjects>>

\* -------------------------------------------- BlogPostsSection/index.tsx
\* mutant: the image element is rendered unconditionally
BlogPostCardAlwaysImage(post, idx) ==
  [hasImage |-> TRUE, src |-> post.imageUrl, dateTime |-> post.date,
   time |-> post.formattedDate, showsReadingTime |-> Truthy(post.readingTime),
   title |-> post.title, link |-> post.permalink,
   tags |-> Slice(post.tags, CardTagLimit), delay |-> 2 * (idx - 1)]

\* BlogPostCard: the image element only when post.imageUrl is truthy, at most
\* three tags, the animation delay idx * 0.2 in tenths of a second
BlogPostCard(post, idx) ==
  [hasImage |-> TruthyStr(post.imageUrl),
   src |-> IF TruthyStr(post.imageUrl) THEN post.imageUrl ELSE UndefStr,
   dateTime |-> post.date,
   time |-> post.formattedDate,
   showsReadingTime |-> Truthy(post.readingTime),
   title |-> post.title,
   link |-> post.permalink,
   tags |-> Slice(post.tags, CardTagLimit),
   delay |-> 2 * (idx - 1)]

\* recentBlogPosts.map((post, idx) => <BlogPostCard ... />), nothing when null
CardsOf(recentBlogPosts) ==
  [i \in 1..Len(recentBlogPosts) |-> BlogPostCard(recentBlogPosts[i], i)]

\* mutant: the section is rendered even without posts
SectionAlways(recentBlogPosts) == "section"

\* recentBlogPosts.length === 0 ? null : the section with one card per post
SectionOf(recentBlogPosts) == IF Len(recentBlogPosts) = 0 THEN "null" ELSE "section"

\* rendered once on the server while the site is built, and once per page load
\* on the client
BlogPostsSection ==
  /\ phase \in {"built", "client"}
  /\ rendered.by = "none"
  /\ \E readThrows \in BOOLEAN :
       LET recentBlogPosts == useRecentBlogPosts007(globalData, DefaultCount, readThrows)
       IN rendered' = [by |-> "section", count |-> DefaultCount, threw |-> readThrows,
                       tz |-> timeZone, section |-> SectionOf(recentBlogPosts),
                       cards |-> CardsOf(recentBlogPosts),
                       posts |-> recentBlogPosts]
  /\ UNCHANGED <<phase, allContent, blogGlobal, globalData, setCalls,
                 timeZone, serverRender, Projects, sortedProjects>>

\* ----------------------- useRecentBlogPosts, BlogPostsSection/useBlogPosts.ts
\* new Date(a.metadata?.date || 0).getTime(), in days since the epoch
TimeOf(post) == IF Truthy(Meta(post, "date")) THEN post.date ELSE 0

\* x goes in front of the first element that is not later than it: with the
\* comparator dateB - dateA the (stable) sort keeps equal dates in input order
RECURSIVE InsertByDate(_, _)
InsertByDate(x, s) ==
  IF s = <<>> THEN <<x>>
  ELSE IF TimeOf(Head(s)) <= TimeOf(x) THEN <<x>> \o s
       ELSE <<Head(s)>> \o InsertByDate(x, Tail(s))

\* mutant: the comparator is dateA - dateB, oldest first
RECURSIVE SortByDateAsc(_)
SortByDateAsc(s) ==
  IF s = <<>> THEN <<>>
  ELSE LET older == SelectSeq(SortByDateAsc(Tail(s)), LAMBDA y : TimeOf(y) < TimeOf(Head(s)))
           rest == SelectSeq(SortByDateAsc(Tail(s)), LAMBDA y : TimeOf(y) >= TimeOf(Head(s)))
       IN older \o <<Head(s)>> \o rest

\* [...blogPosts].sort((a, b) => dateB.getTime() - dateA.getTime())
RECURSIVE SortByDateDesc(_)
SortByDateDesc(s) ==
  IF s = <<>> THEN <<>> ELSE InsertByDate(Head(s), SortByDateDesc(Tail(s)))

\* .sort(...).slice(0, count)
SortedPosts(blogPosts, count) == Slice(SortByDateDesc(blogPosts), count)

\* a null entry throws in the comparator (called as soon as there are two
\* entries) or in the map callback (when the entry survives the slice)
UseBlogPostsThrows(blogPosts, count) ==
  /\ \E i \in 1..Len(blogPosts) : blogPosts[i].isNull
  /\ Len(blogPosts) >= 2 \/ count >= 1

\* imageUrl.startsWith('./')
StartsWithDotSlash(s) == Len(s) >= 2 /\ s[1] = "." /\ s[2] = "/"

\* sourcePath.match(/blog\/([^\/]+)\//): positions of "blog" "/" folder "/"
FolderMatches(source) ==
  {i \in 1..(Len(source) - 3) :
     source[i] = "blog" /\ source[i + 1] = "/" /\ source[i + 2] # "/"
     /\ source[i + 3] = "/"}

HasBlogFolder(source) == FolderMatches(source) # {}

BlogFolder(source) ==
  source[(CHOOSE i \in FolderMatches(source) :
            \A j \in FolderMatches(source) : i <= j) + 2]

\* permalink.endsWith('/') ? permalink.slice(0, -1) : permalink
BlogPath(permalink) ==
  IF permalink # <<>> /\ Last(permalink) = "/"
  THEN SubSeq(permalink, 1, Len(permalink) - 1) ELSE permalink

HeroBanner == <<"/", "img", "/", "hero-banner.png">>

\* mutant: the folder of the source is never looked at
ImageUrlOfPermalinkOnly(post) ==
  LET declared == IF post.hasMetadata /\ post.image # <<"undefined">> /\ post.image # <<>>
                  THEN post.image
                  ELSE IF post.hasMetadata /\ post.metaImage # <<"undefined">>
                       THEN post.metaImage ELSE <<>>
      permalink == IF post.hasMetadata /\ post.permalink # <<"undefined">>
                   THEN post.permalink ELSE <<>>
      blogPath == IF permalink # <<>> /\ permalink[Len(permalink)] = "/"
                  THEN SubSeq(permalink, 1, Len(permalink) - 1) ELSE permalink
  IN IF Len(declared) >= 2 /\ declared[1] = "." /\ declared[2] = "/"
     THEN blogPath \o Tail(declared)
     ELSE IF declared = <<>> THEN blogPath \o <<"/", "img", "/", "hero-banner.png">>
          ELSE declared

\* lines 51-82: the image of a card
ImageUrlOf(post) ==
  LET declared == IF TruthyStr(MetaStr(post, "image")) THEN post.image
                  ELSE OrEmptyStr(MetaStr(post, "metaImage"))
      source == OrEmptyStr(MetaStr(post, "source"))
      blogPath == BlogPath(OrEmptyStr(MetaStr(post, "permalink")))
  IN IF declared # EmptyStr /\ StartsWithDotSlash(declared)
     THEN IF HasBlogFolder(source)
          THEN <<"/", "blog", "/", BlogFolder(source)>> \o Tail(declared)
          ELSE blogPath \o Tail(declared)
     ELSE IF declared = EmptyStr
          THEN IF HasBlogFolder(source)
               THEN <<"/", "blog", "/", BlogFolder(source)>> \o HeroBanner
               ELSE blogPath \o HeroBanner
          ELSE declared

\* post.id || metadata.permalink?.split('/').pop() || ''
IdOf(post) ==
  IF TruthyStr(post.id) THEN post.id
  ELSE IF ~TruthyStr(MetaStr(post, "permalink")) THEN EmptyStr
  ELSE IF Last(post.permalink) = "/" THEN EmptyStr
  ELSE <<Last(post.permalink)>>

\* toLocaleDateString of new Date(dateString); undefined is an invalid date
formatDateLocal(dateString, tz) ==
  IF dateString > 0 THEN 100 + LocalDay(dateString, tz) ELSE 97

ToFeaturedBlogPost(post, tz) ==
  [id |-> IdOf(post),
   title |-> OrEmpty(Meta(post, "title")),
   description |-> OrEmpty(Meta(post, "description")),
   date |-> OrEmpty(Meta(post, "date")),
   formattedDate |-> IF Truthy(Meta(post, "formattedDate")) THEN post.formattedDate
                     ELSE formatDateLocal(Meta(post, "date"), tz),
   permalink |-> OrEmptyStr(MetaStr(post, "permalink")),
   imageUrl |-> ImageUrlOf(post),
   tags |-> IF post.hasMetadata /\ post.hasTags THEN post.tags ELSE <<>>,
   readingTime |-> IF Truthy(Meta(post, "readingTime")) THEN post.readingTime
                   ELSE 10 * DefaultReadingTime]

\* the three hard-coded posts of getFallbackPosts
FallbackPost(n, minutes) ==
  [id |-> <<"fallback", ToString(n)>>, title |-> 900 + n, description |-> 910 + n,
   date |-> 920 + n, formattedDate |-> 1020 + n,
   permalink |-> <<"/", "blog", "/", "fallback", ToString(n)>>,
   imageUrl |-> <<"/", "blog", "/", "fallback", ToString(n)>> \o HeroBanner,
   tags |-> <<>>, readingTime |-> 10 * minutes]

getFallbackPosts == <<FallbackPost(3, 5), FallbackPost(2, 8), FallbackPost(1, 10)>>

\* !blogPluginData?.blogPosts || blogPluginData.blogPosts.length === 0
NoBlogPosts(blogPluginData) ==
  blogPluginData.kind # "array" \/ Len(blogPluginData.blogPosts) = 0

useRecentBlogPosts(blogPluginData, count, tz) ==
  IF NoBlogPosts(blogPluginData) THEN getFallbackPosts
  ELSE IF UseBlogPostsThrows(blogPluginData.blogPosts, count) THEN getFallbackPosts
  ELSE [i \in 1..Len(SortedPosts(blogPluginData.blogPosts, count)) |->
          ToFeaturedBlogPost(SortedPosts(blogPluginData.blogPosts, count)[i], tz)]

RenderUseBlogPosts ==
  /\ phase = "client"
  /\ rendered.by = "none"
  /\ \E count \in 0..MaxCount :
       rendered' = [by |-> "useBlogPosts", count |-> count, threw |-> FALSE,
                    tz |-> timeZone, section |-> "none", cards |-> <<>>,
                    posts |-> useRecentBlogPosts(blogGlobal, count, timeZone)]
  /\ UNCHANGED <<phase, allContent, blogGlobal, globalData, setCalls,
                 timeZone, serverRender, Projects, sortedProjects>>

\* ------------------------------------------ showcase data, unnamed/part_006
\* A project as far as sorting goes: the title is the character code of its
\* (one-letter) title, the year the number its year string denotes, Undef
\* when the optional year is left out and Empty when it is the empty string.
Project(title, year) == [title |-> title, year |-> year]

Titles == {65, 66, 97}              \* "A", "B", "a"
Years == {Undef, Empty, 2023, 2024}
ProjectPool == {Project(t, y) : t \in Titles, y \in Years}

\* String.prototype.toLowerCase on a character code
toLowerCase(c) == IF c >= 65 /\ c <= 90 THEN c + 32 ELSE c

\* (project) => project.title.toLowerCase()
TitleGetter == [project \in ProjectPool |-> toLowerCase(project.title)]

\* (project) => -(project.year || "0")
YearGetter ==
  [project \in ProjectPool |-> 0 - (IF Truthy(project.year) THEN project.year ELSE 0)]

\* x goes behind every element that is not greater than it: the comparator
\* returns 0 for equal values and Array.prototype.sort is stable
RECURSIVE InsertAfterEqual(_, _, _)
InsertAfterEqual(x, sorted, getter) ==
  IF sorted = <<>> THEN <<x>>
  ELSE IF getter[x] < getter[Head(sorted)] THEN <<x>> \o sorted
  ELSE <<Head(sorted)>> \o InsertAfterEqual(x, Tail(sorted), getter)

\* mutant: a sort that is not stable (equal elements come out reversed)
RECURSIVE sortByUnstable(_, _)
sortByUnstable(array, getter) ==
  IF array = <<>> THEN <<>>
  ELSE InsertAfterEqual(Head(array), sortByUnstable(Tail(array), getter), getter)

\* sortBy: [...array].sort by the getter's value, ascending
RECURSIVE sortBy(_, _)
sortBy(array, getter) ==
  IF array = <<>> THEN <<>>
  ELSE InsertAfterEqual(Last(array),
                        sortBy(SubSeq(array, 1, Len(array) - 1), getter),
                        getter)

\* sortProjects: by title first, then by year, most recent first
sortProjects == sortBy(sortBy(Projects, TitleGetter), YearGetter)

NotEvaluated == [evaluated |-> FALSE, list |-> <<>>]

\* export const sortedProjects = sortProjects(), when the module is evaluated
EvaluateShowcase ==
  /\ ~sortedProjects.evaluated
  /\ sortedProjects' = [evaluated |-> TRUE, list |-> sortProjects]
  /\ UNCHANGED <<phase, allContent, blogGlobal, globalData, setCalls, rendered,
                 timeZone, serverRender, Projects>>

\* ------------------------------------------------------------------ Init
ContentKinds == {"unreadable", "absent", "noPosts", "notArray"}

\* Either the blog content handed to the plugin varies (and the blog plugin's
\* global data carries no blogPosts, as the blog plugin publishes none), or the
\* blog plugin's global data varies.
Init ==
  /\ phase = "build"
  /\ \/ /\ \/ allContent \in [kind : ContentKinds, blogPosts : {<<>>}]
           \/ allContent \in [kind : {"array"}, blogPosts : SeqsUpTo(PostPool, MaxPosts)]
        /\ blogGlobal = [kind |-> "noPosts", blogPosts |-> <<>>]
     \/ /\ allContent = [kind |-> "absent", blogPosts |-> <<>>]
        /\ \/ blogGlobal = [kind |-> "absent", blogPosts |-> <<>>]
           \/ blogGlobal \in [kind : {"array"}, blogPosts : SeqsUpTo(TypedPostPool, MaxGlobalPosts)]
  /\ globalData = NoPluginData
  /\ setCalls = 0
  /\ rendered = NotRendered
  /\ timeZone \in TimeZones
  /\ serverRender = NotRendered
  /\ Projects = <<>>
  /\ sortedProjects = NotEvaluated

Next ==
  \/ AllContentLoaded
  \/ AllContentLoaded003
  \/ StartClient
  \/ Render007
  \/ Render008
  \/ BlogPostsSection
  \/ RenderUseBlogPosts

Spec == Init /\ [][Next]_vars

\* The showcase module on its own: any list of projects, evaluated once.
InitShowcase ==
  /\ phase = "build"
  /\ allContent = [kind |-> "absent", blogPosts |-> <<>>]
  /\ blogGlobal = [kind |-> "noPosts", blogPosts |-> <<>>]
  /\ globalData = NoPluginData
  /\ setCalls = 0
  /\ rendered = NotRendered
  /\ timeZone = 0
  /\ serverRender = NotRendered
  /\ Projects \in SeqsUpTo(ProjectPool, MaxProjects)
  /\ sortedProjects = NotEvaluated

NextShowcase == EvaluateShowcase

SpecShowcase == InitShowcase /\ [][NextShowcase]_vars


\* ================================================================ claims
\* the blogPosts array the plugin was handed, while the build still holds it
HandedArray == phase = "built" /\ allContent.kind = "array"
Handed == allContent.blogPosts
Published == globalData.recentPosts

\* the i-th published item carries the title, permalink and date of post p
BuiltFrom(item, p) ==
  /\ item.title = OrEmpty(Meta(p, "title"))
  /\ item.permalink = OrEmptyStr(MetaStr(p, "permalink"))
  /\ item.date = OrEmpty(Meta(p, "date"))

\* the published list is the prefix of length min(5, n) of the handed array
PrefixPublished ==
  /\ Len(Published) = Min(RecentLimit, Len(Handed))
  /\ \A i \in 1..Len(Published) : BuiltFrom(Published[i], Handed[i])

\* none of the first five handed entries is null / undefined
FirstFiveMap == \A i \in 1..Min(RecentLimit, Len(Handed)) : ~Handed[i].isNull

\* C1 as stated: for every handed blogPosts array of length n, recentPosts has
\* length min(5, n) and its i-th item is built from the i-th post.
C1_Original == HandedArray => PrefixPublished

\* C1 (amended): for every handed blogPosts array whose first five entries map
\* without throwing, recentPosts is the prefix of length min(5, n) of the input,
\* item i built from post i, in insertion order.
C1_Prefix == (HandedArray /\ FirstFiveMap) => PrefixPublished

C1_Witness ==
  /\ HandedArray /\ FirstFiveMap
  /\ Len(Handed) = 6 /\ Len(Published) = 5
  /\ Handed[1] = Post(1) /\ Handed[2] = Post(2) /\ Handed[3] = NoMetaPost
  /\ Published[2].title = Post(2).title

\* publication time of a handed post and of a published item, in days; a
\* missing date counts as the epoch
DescendingPosts(posts) ==
  \A i \in 1..Len(posts), j \in 1..Len(posts) :
     i < j => TimeOf(posts[i]) >= TimeOf(posts[j])
DescendingItems(items) ==
  \A i \in 1..Len(items), j \in 1..Len(items) :
     i < j => items[i].date >= items[j].date

\* adjacent published posts that both carry a date are in descending order
DescendingDated(items) ==
  \A i \in 1..Len(items), j \in 1..Len(items) :
     (i < j /\ Truthy(items[i].date) /\ Truthy(items[j].date))
       => items[i].date >= items[j].date

Times == {0} \cup Dates
PostsAt(posts, t) == Cardinality({i \in 1..Len(posts) : TimeOf(posts[i]) = t})
ItemsAt(items, t) == Cardinality({i \in 1..Len(items) : items[i].date = t})

\* no post left out of recentPosts is later than a post that is included:
\* every handed post later than some published one is itself published
NoneLeftOutIsLater ==
  \A t \in Times : \A i \in 1..Len(Published) :
     t > Published[i].date => ItemsAt(Published, t) = PostsAt(Handed, t)

\* the same, read over the posts that carry a date
NoDatedLeftOutIsLater ==
  \A t \in Dates : \A i \in 1..Len(Published) :
     (Truthy(Published[i].date) /\ t > Published[i].date)
       => ItemsAt(Published, t) = PostsAt(Handed, t)

C4_FailurePublishesEmpty ==
  [][(phase = "build" /\ TryThrows(allContent))
       => (phase' = "built" /\ globalData' = PluginData(<<>>))]_vars

C4_Witness ==
  /\ HandedArray /\ TryThrows(allContent)
  /\ Handed[1] = Post(2) /\ Handed[2] = NullPost
  /\ globalData = PluginData(<<>>)

\* C5: when the blog content is absent, has no blogPosts or blogPosts is not
\* an array, allContentLoaded publishes recentPosts = [] and does not throw.
C5_NoPostsPublishesEmpty ==
  [][(phase = "build" /\ allContent.kind \in {"absent", "noPosts", "notArray"})
       => (phase' = "built" /\ globalData' = PluginData(<<>>))]_vars

C5_Witness ==
  /\ phase = "built" /\ allContent.kind = "notArray"
  /\ globalData = PluginData(<<>>) /\ setCalls = 1

\* a plugin-data hook (part_007 or part_008) returned, having read the data
HookReadData == rendered.by \in {"part_007", "part_008"} /\ ~rendered.threw

\* card c carries the title, permalink and date of the published item
CardOf(c, item) ==
  /\ c.title = item.title
  /\ c.permalink = item.permalink
  /\ c.date = item.date

\* C6: useRecentBlogPosts(count) over the plugin data returns exactly
\* min(count, m) posts for a published recentPosts of length m, the i-th one
\* carrying the title, permalink and date of the i-th published post.
C6_HookPrefix ==
  HookReadData =>
    /\ Len(rendered.posts) = Min(rendered.count, Len(Published))
    /\ \A i \in 1..Len(rendered.posts) : CardOf(rendered.posts[i], Published[i])

C6_Witness ==
  /\ HookReadData /\ rendered.by = "part_008"
  /\ rendered.count = 2 /\ Len(Published) = 5
  /\ Published[1].date = 1 /\ Published[2].date = 2
  /\ rendered.posts[2].title = Post(2).title

\* the section was rendered on the server, the handed blogPosts at hand
SectionOverArray == HandedArray /\ rendered.by = "section" /\ ~rendered.threw

\* the cards are the first min(3, n) handed posts, in the same order
CardsArePrefix ==
  /\ Len(rendered.posts) = Min(DefaultCount, Len(Handed))
  /\ \A i \in 1..Len(rendered.posts) :
       /\ rendered.posts[i].title = OrEmpty(Meta(Handed[i], "title"))
       /\ rendered.posts[i].permalink = OrEmptyStr(MetaStr(Handed[i], "permalink"))
       /\ rendered.posts[i].date = OrEmpty(Meta(Handed[i], "date"))

\* C7 as stated: for blog content with n posts the section shows min(3, n)
\* cards, the first min(3, n) entries of blogPosts in the same order.
C7_Original == SectionOverArray => CardsArePrefix

\* C7 (amended): for blog content with n posts of which the first five map
\* without throwing, the section shows min(3, n) cards, the first min(3, n)
\* entries of blogPosts in the same order.
C7_SectionShowsFirstThree == (SectionOverArray /\ FirstFiveMap) => CardsArePrefix

C7_Witness ==
  /\ SectionOverArray /\ FirstFiveMap
  /\ Len(Handed) = 6 /\ Len(rendered.posts) = 3
  /\ Handed[1] = Post(2) /\ Handed[2] = NoMetaPost /\ Handed[3] = Post(1)
  /\ rendered.posts[3].title = Post(1).title /\ rendered.section = "section"

\* a hook over the plugin data, or the section, rendered
PluginDataRendered == rendered.by \in {"part_007", "part_008", "section"}

C9_AllOrNothingInFirstFive ==
  HandedArray =>
    /\ ~FirstFiveMap => Published = <<>>
    /\ FirstFiveMap => /\ Len(Published) = Min(RecentLimit, Len(Handed))
                       /\ \A i \in 1..Len(Published) :
                            Published[i].title = OrEmpty(Meta(Handed[i], "title"))

C9_Witness ==
  /\ HandedArray /\ Len(Handed) = 6
  /\ FirstFiveMap /\ Handed[6] = NullPost
  /\ Len(Published) = 5 /\ Published[5].title = Post(1).title

\* the blog global data holds a non-empty list and the last render is of the
\* hook of BlogPostsSection/useBlogPosts.ts
SortingHookRendered ==
  rendered.by = "useBlogPosts" /\ blogGlobal.kind = "array" /\ blogGlobal.blogPosts # <<>>


\* C10: given a non-empty blogPosts list in any order, the hook returns the
\* min(count, n) posts with the latest dates, sorted by date descending, a
\* missing date counting as the epoch.
C10_LatestSortedDescending ==
  SortingHookRendered =>
    /\ Len(rendered.posts) = Min(rendered.count, Len(blogGlobal.blogPosts))
    /\ DescendingItems(rendered.posts)
    /\ \A t \in Times : ItemsAt(rendered.posts, t) <= PostsAt(blogGlobal.blogPosts, t)
    /\ \A t \in Times, c \in 1..Len(rendered.posts) :
         t > rendered.posts[c].date
           => ItemsAt(rendered.posts, t) = PostsAt(blogGlobal.blogPosts, t)

C10_Witness ==
  /\ SortingHookRendered /\ rendered.count = 2
  /\ blogGlobal.blogPosts = <<NoMetaPost, Post(1), Post(2)>>
  /\ Len(rendered.posts) = 2
  /\ rendered.posts[1].title = Post(2).title /\ rendered.posts[2].title = Post(1).title

\* the front matter of handed post p declares an image
DeclaresImage(p) == TruthyStr(MetaStr(p, "image"))

\* C11: a card's imageUrl is set only if the post declared an image in its
\* front matter: without one the plugin publishes image = "", the hook returns
\* imageUrl undefined and BlogPostCard renders no image element; with one,
\* imageUrl (and the image element's src) is the declared value unchanged.
C11_ImageOnlyIfDeclared ==
  /\ (SectionOverArray /\ FirstFiveMap) =>
       \A i \in 1..Len(rendered.cards) :
          IF DeclaresImage(Handed[i])
          THEN /\ Published[i].image = Handed[i].image
               /\ rendered.posts[i].imageUrl = Handed[i].image
               /\ rendered.cards[i].hasImage /\ rendered.cards[i].src = Handed[i].image
          ELSE /\ Published[i].image = EmptyStr
               /\ rendered.posts[i].imageUrl = UndefStr
               /\ ~rendered.cards[i].hasImage
  /\ HookReadData =>
       \A i \in 1..Len(rendered.posts) :
          rendered.posts[i].imageUrl =
            IF Published[i].image = EmptyStr THEN UndefStr ELSE Published[i].image

C11_Witness ==
  /\ SectionOverArray /\ FirstFiveMap /\ Len(rendered.cards) = 3
  /\ Handed[1] = Post(1) /\ Handed[2] = Post(2) /\ Handed[3] = NoMetaPost
  /\ ~rendered.cards[1].hasImage
  /\ rendered.cards[2].hasImage /\ rendered.cards[2].src = Post(2).image
  /\ rendered.posts[3].imageUrl = UndefStr

\* the page was rendered on the server and again in the browser, and the
\* plugin data could be read (or not) in both renders alike
Hydrated ==
  /\ phase = "client"
  /\ rendered.by = "section" /\ serverRender.by = "section"
  /\ rendered.threw = serverRender.threw

\* what the part_007 hook makes of a published post whatever the environment
DateShown(item) ==
  IF Truthy(item.formattedDate) THEN item.formattedDate ELSE item.date

YearOf(project) == IF Truthy(project.year) THEN project.year ELSE 0

\* how often project p occurs in the list s
Occurrences(s, p) == Cardinality({i \in 1..Len(s) : s[i] = p})

\* C13: sortedProjects is a permutation of Projects, ordered by year, most
\* recent first, and among projects of the same year by lower-cased title
\* ascending; a project without a year sorts as year 0, after all dated ones.
C13_SortedProjects ==
  sortedProjects.evaluated =>
    LET s == sortedProjects.list IN
    /\ Len(s) = Len(Projects)
    /\ \A p \in ProjectPool : Occurrences(s, p) = Occurrences(Projects, p)
    /\ \A i \in 1..Len(s) : \A j \in (i + 1)..Len(s) :
         \/ YearOf(s[i]) > YearOf(s[j])
         \/ /\ YearOf(s[i]) = YearOf(s[j])
            /\ toLowerCase(s[i].title) <= toLowerCase(s[j].title)
    /\ \A i \in 1..Len(s) : \A j \in 1..Len(s) :
         (~Truthy(s[i].year) /\ Truthy(s[j].year)) => j < i

C13_Witness ==
  /\ sortedProjects.evaluated
  /\ Projects = <<Project(66, Undef), Project(66, 2024), Project(97, 2024)>>
  /\ sortedProjects.list = <<Project(97, 2024), Project(66, 2024), Project(66, Undef)>>

\* a site-absolute path or a URL with a scheme
IsAbsolute(url) == url # <<>> /\ url[1] \in {"/", "https:", "http:"}

\* the posts the cards of the last useBlogPosts.ts render were made from
CardSources == SortedPosts(blogGlobal.blogPosts, rendered.count)

\* frontMatter.image || metadata.image || '' of a post
DeclaredImage(p) ==
  IF TruthyStr(MetaStr(p, "image")) THEN p.image ELSE OrEmptyStr(MetaStr(p, "metaImage"))

\* '/blog/<source folder>', or the permalink without its trailing slash when
\* the source has no blog folder
ImageBase(p) ==
  IF HasBlogFolder(OrEmptyStr(MetaStr(p, "source")))
  THEN <<"/", "blog", "/", BlogFolder(p.source)>>
  ELSE BlogPath(OrEmptyStr(MetaStr(p, "permalink")))

\* the rewriting of './' images and the stock banner of posts without image
ImageRewritten(url, p) ==
  /\ StartsWithDotSlash(DeclaredImage(p)) => url = ImageBase(p) \o Tail(DeclaredImage(p))
  /\ DeclaredImage(p) = EmptyStr => url = ImageBase(p) \o HeroBanner

C15_SetGlobalDataExactlyOnce ==
  [][/\ phase = "build" =>
          /\ phase' = "built"
          /\ setCalls' = setCalls + 1
          /\ globalData'.present /\ globalData'.hasRecentPosts
     /\ phase # "build" => (setCalls' = setCalls /\ globalData' = globalData)
     /\ setCalls' <= 1]_vars

C15_Witness ==
  /\ HandedArray /\ TryThrows(allContent) /\ Len(Handed) = 3
  /\ Handed[3] = NullPost /\ Handed[1] = Post(1)
  /\ setCalls = 1 /\ globalData.present

====
